---- MODULE Spec2Model ----
(***************************************************************************)
(* A model of the AI Mood Tracker core (ai-mood-tracker/emotion_detector.py *)
(* and its caller in app.py): the CSV log writer and readers, the backend   *)
(* selection of EmotionAnalyzer, score normalisation and analyze.           *)
(*                                                                          *)
(* Four specifications share the variables below:                           *)
(*   SpecLog       one sequential caller of ensure_log_file and            *)
(*                 append_log_entry on one path;                            *)
(*   SpecRead      get_daily_summary and get_recent_entries applied to     *)
(*                 bounded log files, malformed rows included;              *)
(*   SpecAnalyzer  EmotionAnalyzer construction, _normalize_emotions and   *)
(*                 analyze against an arbitrary backend answer;             *)
(*   SpecRace      two writers whose append_log_entry steps interleave.    *)
(***************************************************************************)
EXTENDS Integers, Sequences, FiniteSets, TLC

VARIABLES
    exists,        \* log_path.exists()
    lines,         \* the log file's lines, each a tuple of comma-separated cells
    op,            \* the operation that ran last
    appended,      \* history: the line of every append_log_entry call, in call order
    summary,       \* the DailySummary get_daily_summary returned last
    recent,        \* the rows get_recent_entries returned last
    args,          \* the arguments of the last reader call
    HAS_DEEPFACE,  \* module flag _HAS_DEEPFACE
    HAS_FER,       \* module flag _HAS_FER
    analyzer,      \* the EmotionAnalyzer instance, or NoAnalyzer
    response,      \* what the backend answered to the last analyze
    outcome,       \* what the last call returned or raised
    pc,            \* per writer: the step of append_log_entry it is at
    sawFile,       \* per writer: what its log_path.exists() check returned
    calls          \* per writer: the number of append_log_entry calls begun

fileVars == <<exists, lines>>
logVars == <<op, appended>>
readVars == <<summary, recent, args>>
anaVars == <<HAS_DEEPFACE, HAS_FER, analyzer, response, outcome>>
raceVars == <<pc, sawFile, calls>>
vars == <<fileVars, logVars, readVars, anaVars, raceVars>>

---------------------------------------------------------------------------
(* Bounds of the model *)

MaxDate == 2        \* calendar dates 1..MaxDate
MaxAppends == 2     \* append_log_entry calls of the sequential caller
MaxRows == 3        \* data rows of a log file the readers are given
MaxLimit == 3       \* get_recent_entries limits 0..MaxLimit
MaxScore == 2       \* raw backend scores -1..MaxScore
MaxCalls == 2       \* append_log_entry calls per concurrent writer

---------------------------------------------------------------------------
(* Values *)

None == "None"

Dates == 1..MaxDate
\* Two instants of a date are told apart by their second.
Seconds == {0, 1}
DateTimes == [date : Dates, sec : Seconds]

Labels == {"happy", "sad"}

\* The sequences over S of length at most n.
RECURSIVE SeqsUpTo(_, _)
SeqsUpTo(S, n) ==
    IF n = 0 THEN {<<>>}
    ELSE LET shorter == SeqsUpTo(S, n - 1)
         IN  shorter \cup {Append(s, x) : s \in shorter, x \in S}

\* A float that is a ratio of two integers: <<numerator, denominator>>.
Ratio(n, d) == <<n, d>>

\* emotion_detector.py:41
EMOTION_COLUMNS == <<"timestamp", "emotion", "confidence", "source">>

\* ",".join(EMOTION_COLUMNS): one line, kept as its cells
HeaderLine == EMOTION_COLUMNS

\* datetime.isoformat() of a naive datetime
Isoformat(dt) ==
    "2024-01-0" \o ToString(dt.date) \o "T00:00:0" \o ToString(dt.sec)

\* f"{x:.4f}" for a ratio x in [0, 1]: the nearest multiple of 1/10000
Pad4(n) ==
    IF n < 10 THEN "000" \o ToString(n)
    ELSE IF n < 100 THEN "00" \o ToString(n)
    ELSE IF n < 1000 THEN "0" \o ToString(n)
    ELSE ToString(n)

TenThousandths(x) == (20000 * x[1] + x[2]) \div (2 * x[2])

Format4(x) ==
    LET n == TenThousandths(x)
    IN  ToString(n \div 10000) \o "." \o Pad4(n % 10000)

\* The EmotionResult values a caller hands to append_log_entry.
Confidences == {Ratio(1, 1), Ratio(2, 3)}
Results ==
    [dominant_emotion : Labels \cup {""},
     confidence : Confidences,
     timestamp : {dt \in DateTimes : dt.sec = 0}]
Sources == {"webcam", "upload"}

---------------------------------------------------------------------------
(* The log writer *)

\* The f-string of append_log_entry: the line's four cells.
LogLine(result, source) ==
    <<Isoformat(result.timestamp), result.dominant_emotion,
      Format4(result.confidence), source>>

\* Path.write_text(header): open for writing (truncating), write, close.
WriteText(line) ==
    /\ exists' = TRUE
    /\ lines' = <<line>>

\* The file's lines after ensure_log_file: the header is written only when the
\* path does not exist.
Ensured_Overwrite == <<HeaderLine>>

Ensured == IF ~exists THEN <<HeaderLine>> ELSE lines

EnsureBody ==
    /\ exists' = TRUE
    /\ lines' = Ensured

\* handle.write(line) on a handle opened "a": the line goes after the last one.
Written_Truncating(content, line) == <<HeaderLine, line>>

Written(content, line) == Append(content, line)

\* append_log_entry: ensure_log_file, then one write to a handle opened "a".
AppendBody(result, source) ==
    /\ exists' = TRUE
    /\ lines' = Written(Ensured, LogLine(result, source))

EnsureLogFile ==
    /\ EnsureBody
    /\ op' = "ensure_log_file"
    /\ UNCHANGED <<appended, readVars, anaVars, raceVars>>

AppendLogEntry ==
    /\ Len(appended) < MaxAppends
    /\ \E result \in Results, source \in Sources :
          /\ AppendBody(result, source)
          /\ appended' = Append(appended, LogLine(result, source))
    /\ op' = "append_log_entry"
    /\ UNCHANGED <<readVars, anaVars, raceVars>>

---------------------------------------------------------------------------
(* Idle values of the variables a specification does not use *)

NoSummary ==
    [target_date |-> 0, total_scans |-> 0, dominant_emotion |-> None,
     distribution |-> <<>>, average_confidence |-> None]
NoArgs == [target_date |-> 0, today |-> 0, limit |-> 0]
NoAnalyzer == [backend |-> None]
NoResponse == [shape |-> "none", faces |-> <<>>]
NoOutcome == [kind |-> "none"]
Writers == {1, 2}

LogIdle == op = "start" /\ appended = <<>>
ReadIdle == summary = NoSummary /\ recent = <<>> /\ args = NoArgs
AnaIdle ==
    /\ HAS_DEEPFACE = FALSE
    /\ HAS_FER = FALSE
    /\ analyzer = NoAnalyzer
    /\ response = NoResponse
    /\ outcome = NoOutcome
RaceIdle ==
    /\ pc = [w \in Writers |-> "idle"]
    /\ sawFile = [w \in Writers |-> FALSE]
    /\ calls = [w \in Writers |-> 0]

---------------------------------------------------------------------------
(* SpecLog: one sequential caller, starting on a path with no file *)

InitLog ==
    /\ exists = FALSE
    /\ lines = <<>>
    /\ LogIdle /\ ReadIdle /\ AnaIdle /\ RaceIdle

NextLog == EnsureLogFile \/ AppendLogEntry

SpecLog == InitLog /\ [][NextLog]_vars

\* C1: ensure_log_file never overwrites an existing log. On a path with no
\* file it creates a file holding exactly the header row; on a path whose file
\* exists, whatever ensure_log_file and append_log_entry calls came before, it
\* leaves the contents unchanged (so a second call in a row changes nothing).
C1_EnsureNeverOverwrites ==
    [][op' = "ensure_log_file" =>
          /\ exists'
          /\ ~exists => lines' = <<EMOTION_COLUMNS>>
          /\ exists => lines' = lines]_vars

\* ensure_log_file has run on a log that holds entries, and they are still there.
C1_Witness ==
    /\ op = "ensure_log_file"
    /\ exists
    /\ Len(appended) >= 1
    /\ Len(lines) = 1 + Len(appended)

\* C2: the log is append-only. After any sequence of ensure_log_file and
\* append_log_entry calls of one sequential caller, the file is the header row
\* followed by exactly one line per append_log_entry call, in call order.
C2_AppendOnly ==
    /\ exists => lines = <<EMOTION_COLUMNS>> \o appended
    /\ ~exists => appended = <<>> /\ lines = <<>>

\* Two entries were appended, with an ensure_log_file call after them.
C2_Witness ==
    /\ Len(appended) >= 2
    /\ appended[1] # appended[2]
    /\ op = "ensure_log_file"

---------------------------------------------------------------------------
(* The log readers *)

\* pandas.read_csv reads these cells as missing values (NaN).
NA_VALUES ==
    {"", "#N/A", "#NA", "<NA>", "N/A", "NA", "NULL", "NaN", "None", "n/a",
     "nan", "null"}

NaT == [date |-> 0, sec |-> 0]
NaN == -1

\* read_csv: a row shorter than the header is filled with missing cells.
Cell(line, i) == IF i <= Len(line) THEN line[i] ELSE ""

\* The position of a column of the header row.
Column(header, name) == CHOOSE i \in 1..Len(header) : header[i] = name

\* pd.to_datetime(errors="coerce"): the datetime an ISO text stands for, else NaT.
\* Every ISO text of the model has one layout (no fractional second).
ToDatetime(text) ==
    IF \E dt \in DateTimes : Isoformat(dt) = text
    THEN CHOOSE dt \in DateTimes : Isoformat(dt) = text
    ELSE NaT

\* read_csv's float column: the number a 4-decimal text stands for, in
\* ten-thousandths, or NaN for a missing cell.
ToFloat(text) ==
    IF text \in NA_VALUES THEN NaN
    ELSE CHOOSE n \in {TenThousandths(c) : c \in Confidences} :
            ToString(n \div 10000) \o "." \o Pad4(n % 10000) = text

\* One data row of read_csv under the header's column names.
ParseRow(header, line) ==
    [timestamp |-> ToDatetime(Cell(line, Column(header, "timestamp"))),
     emotion |-> Cell(line, Column(header, "emotion")),
     confidence |-> ToFloat(Cell(line, Column(header, "confidence"))),
     source |-> Cell(line, Column(header, "source"))]

\* dropna(subset=["timestamp", "emotion", "confidence"], how="any")
Kept_NoTimestampCheck(row) ==
    /\ row.emotion \notin NA_VALUES
    /\ row.confidence # NaN

Kept(row) ==
    /\ row.timestamp # NaT
    /\ row.emotion \notin NA_VALUES
    /\ row.confidence # NaN

\* load_log_dataframe: no rows when the file is missing or of size 0; else the
\* rows under the header, without those a needed cell of which is missing.
LoadLogDataframe(e, l) ==
    IF ~e \/ l = <<>>
    THEN <<>>
    ELSE LET header == l[1]
             rows == [i \in 1..(Len(l) - 1) |-> ParseRow(header, l[i + 1])]
         IN  SelectSeq(rows, Kept)

RECURSIVE SumConfidence(_)
SumConfidence(rows) ==
    IF rows = <<>> THEN 0
    ELSE rows[1].confidence + SumConfidence(Tail(rows))

\* day_df: the rows whose timestamp's date is the target date
OnDate_NotAfter(rows, target) ==
    SelectSeq(rows, LAMBDA r : r.timestamp.date <= target)

OnDate(rows, target) ==
    SelectSeq(rows, LAMBDA r : r.timestamp.date = target)

\* day_df["emotion"].value_counts()
ValueCounts(rows) ==
    [label \in {rows[i].emotion : i \in 1..Len(rows)} |->
        Cardinality({i \in 1..Len(rows) : rows[i].emotion = label})]

\* The sum of a Series of counts.
RECURSIVE SumCounts(_, _)
SumCounts(counts, keys) ==
    IF keys = {} THEN 0
    ELSE LET k == CHOOSE x \in keys : TRUE
         IN  counts[k] + SumCounts(counts, keys \ {k})

\* get_daily_summary, with the label idxmax picks among the most frequent
DailySummaryOf(e, l, target, dominant) ==
    LET df == LoadLogDataframe(e, l)
        day_df == OnDate(df, target)
        counts == ValueCounts(day_df)
        total == SumCounts(counts, DOMAIN counts)
    IN  IF df = <<>> \/ day_df = <<>>
        THEN [target_date |-> target, total_scans |-> 0,
              dominant_emotion |-> None, distribution |-> <<>>,
              average_confidence |-> None]
        ELSE [target_date |-> target, total_scans |-> total,
              dominant_emotion |-> dominant,
              distribution |-> [k \in DOMAIN counts |-> Ratio(counts[k], total)],
              average_confidence |->
                  ToString(SumConfidence(day_df)) \o "/" \o
                  ToString(10000 * Len(day_df))]

\* counts.idxmax(): a label of the highest count (which one, among equals, is
\* left to the counting library)
IdxMax(counts) ==
    {k \in DOMAIN counts : \A j \in DOMAIN counts : counts[j] <= counts[k]}

\* sort_values("timestamp", ascending=False): rows[i] is put into a sequence
\* sorted newest first; where it lands among equal timestamps is not fixed by
\* the (unstable) sort, so both ends of the run are modelled.
RECURSIVE InsertDesc(_, _, _)
InsertDesc(sorted, row, before) ==
    IF sorted = <<>> THEN <<row>>
    ELSE IF \/ row.timestamp.date > sorted[1].timestamp.date
            \/ /\ row.timestamp.date = sorted[1].timestamp.date
               /\ row.timestamp.sec > sorted[1].timestamp.sec
            \/ before /\ row.timestamp = sorted[1].timestamp
         THEN <<row>> \o sorted
         ELSE <<sorted[1]>> \o InsertDesc(Tail(sorted), row, before)

RECURSIVE SortDesc(_, _)
SortDesc(rows, before) ==
    IF rows = <<>> THEN <<>>
    ELSE InsertDesc(SortDesc(Tail(rows), before), rows[1], before)

\* DataFrame.head(n) for n >= 0
HeadRows_OneMore(rows, n) ==
    SubSeq(rows, 1, IF n + 1 < Len(rows) THEN n + 1 ELSE Len(rows))

HeadRows(rows, n) == SubSeq(rows, 1, IF n < Len(rows) THEN n ELSE Len(rows))

\* get_recent_entries
RecentEntriesOf(e, l, limit, before) ==
    LET df == LoadLogDataframe(e, l)
    IN  IF df = <<>> THEN df
        ELSE HeadRows(SortDesc(df, before), limit)

\* get_daily_summary(log_path, target_date): target_date None stands for
\* datetime.utcnow().date()
GetDailySummary ==
    /\ op = "start"
    /\ \E target \in Dates \cup {0} :
       \E today \in IF target = 0 THEN Dates ELSE {0} :
          LET target_date == IF target = 0 THEN today ELSE target
              day_df == OnDate(LoadLogDataframe(exists, lines), target_date)
          IN  /\ args' = [target_date |-> target, today |-> today, limit |-> 0]
              /\ \/ /\ day_df = <<>>
                    /\ summary' = DailySummaryOf(exists, lines, target_date, None)
                 \/ /\ day_df # <<>>
                    /\ \E dominant \in IdxMax(ValueCounts(day_df)) :
                          summary' =
                              DailySummaryOf(exists, lines, target_date, dominant)
    /\ op' = "get_daily_summary"
    /\ UNCHANGED <<fileVars, appended, recent, anaVars, raceVars>>

\* get_recent_entries(log_path, limit)
GetRecentEntries ==
    /\ op = "start"
    /\ \E limit \in 0..MaxLimit, before \in BOOLEAN :
          /\ args' = [target_date |-> 0, today |-> 0, limit |-> limit]
          /\ recent' = RecentEntriesOf(exists, lines, limit, before)
    /\ op' = "get_recent_entries"
    /\ UNCHANGED <<fileVars, appended, summary, anaVars, raceVars>>

---------------------------------------------------------------------------
(* SpecRead: the readers on a log file found on disk *)

\* Data rows as append_log_entry writes them, and three malformed ones: a
\* timestamp that is no date, no emotion, and a row cut before its confidence.
WrittenRows ==
    {<<Isoformat(dt), IF dt.sec = 0 THEN "happy" ELSE "sad",
       Format4(Ratio(2, 3)), "webcam">> : dt \in DateTimes}
MalformedRows ==
    {<<"yesterday", "happy", "0.6667", "webcam">>,
     <<"2024-01-01T00:00:00", "", "1.0000", "webcam">>,
     <<"2024-01-01T00:00:01", "sad">>}
FileRows == WrittenRows \cup MalformedRows

InitRead ==
    /\ \/ exists = FALSE /\ lines = <<>>
       \/ exists = TRUE /\ lines = <<>>
       \/ /\ exists = TRUE
          /\ lines \in {<<HeaderLine>> \o rows : rows \in SeqsUpTo(FileRows, MaxRows)}
    /\ LogIdle /\ ReadIdle /\ AnaIdle /\ RaceIdle

NextRead == GetDailySummary \/ GetRecentEntries

SpecRead == InitRead /\ [][NextRead]_vars

\* What the claims say of a log file, read off its lines alone: a data line is
\* well formed when its timestamp is a date, and its emotion and confidence
\* cells are there.
DataLines == IF exists /\ lines # <<>> THEN Tail(lines) ELSE <<>>
IsDateText(text) == \E dt \in DateTimes : Isoformat(dt) = text
WellFormedLine(line) ==
    /\ Len(line) >= 3
    /\ IsDateText(line[1])
    /\ line[2] # ""
    /\ line[3] # ""
LineDateTime(line) == CHOOSE dt \in DateTimes : Isoformat(dt) = line[1]
WellFormedAt == {i \in 1..Len(DataLines) : WellFormedLine(DataLines[i])}
Newness(dt) == dt.date * Cardinality(Seconds) + dt.sec
TargetDate == IF args.target_date = 0 THEN args.today ELSE args.target_date
MinOf(a, b) == IF a < b THEN a ELSE b

\* C7: get_daily_summary returns total_scans equal to the number of valid log
\* rows whose timestamp's calendar date is the target date; when that number
\* is zero (a missing, empty or header-only log included) it returns
\* total_scans = 0, no dominant emotion, an empty distribution and no average
\* confidence.
C7_DailySummaryCounts ==
    op = "get_daily_summary" =>
        LET n == Cardinality({i \in WellFormedAt :
                                 LineDateTime(DataLines[i]).date = TargetDate})
        IN  /\ summary.total_scans = n
            /\ n = 0 =>
                  /\ summary.dominant_emotion = None
                  /\ DOMAIN summary.distribution = {}
                  /\ summary.average_confidence = None

\* A log with rows of two dates and a malformed row was summarised for a date
\* that two of its rows have.
C7_Witness ==
    /\ op = "get_daily_summary"
    /\ summary.total_scans = 2
    /\ \E i \in WellFormedAt : LineDateTime(DataLines[i]).date # TargetDate

\* A summary of a date none of the log's valid rows has, in a log that has rows.
C7_WitnessNoData ==
    /\ op = "get_daily_summary"
    /\ WellFormedAt # {}
    /\ summary.total_scans = 0

\* The line a returned row was read from.
IsRowOf(row, line) ==
    /\ WellFormedLine(line)
    /\ row.timestamp = LineDateTime(line)
    /\ row.emotion = line[2]
    /\ ToString(row.confidence \div 10000) \o "." \o Pad4(row.confidence % 10000)
          = line[3]
    /\ row.source = Cell(line, 4)

\* C8: get_recent_entries returns min(limit, number of valid rows) rows,
\* newest first by timestamp, and they are the rows with the latest timestamps
\* of the log; nothing when the log is missing, empty or has no valid row.
C8_RecentEntries ==
    op = "get_recent_entries" =>
        /\ Len(recent) = MinOf(args.limit, Cardinality(WellFormedAt))
        /\ \A i, j \in 1..Len(recent) :
              i < j => Newness(recent[i].timestamp) >= Newness(recent[j].timestamp)
        /\ \A k \in 1..Len(recent) :
              /\ Cardinality({i \in WellFormedAt :
                     Newness(LineDateTime(DataLines[i]))
                         > Newness(recent[k].timestamp)}) < k
              /\ Cardinality({j \in 1..Len(recent) : recent[j] = recent[k]})
                    <= Cardinality({i \in WellFormedAt :
                                       IsRowOf(recent[k], DataLines[i])})

\* Fewer rows were asked for than the log has, and the rows differ in time.
C8_Witness ==
    /\ op = "get_recent_entries"
    /\ Len(recent) = 2
    /\ Cardinality(WellFormedAt) > Len(recent)
    /\ recent[1].timestamp # recent[2].timestamp

\* The file without its malformed data lines.
CleanLines ==
    IF lines = <<>> THEN <<>>
    ELSE <<lines[1]>> \o SelectSeq(Tail(lines), WellFormedLine)

\* C9: a malformed row (a timestamp that is no date, no emotion, no
\* confidence) is dropped at load and does not fail the read: neither reader
\* counts it, and both return what they return for the log without it.
C9_MalformedDropped ==
    /\ op = "get_daily_summary" =>
          /\ summary = DailySummaryOf(exists, CleanLines, TargetDate,
                                      summary.dominant_emotion)
          /\ summary.total_scans <= Cardinality(WellFormedAt)
    /\ op = "get_recent_entries" =>
          /\ \E before \in BOOLEAN :
                recent = RecentEntriesOf(exists, CleanLines, args.limit, before)
          /\ \A k \in 1..Len(recent) :
                \E i \in WellFormedAt : IsRowOf(recent[k], DataLines[i])

\* A reader returned rows of a log that holds a malformed line.
C9_Witness ==
    /\ op = "get_recent_entries"
    /\ Len(recent) >= 1
    /\ \E i \in 1..Len(DataLines) : ~WellFormedLine(DataLines[i])
    /\ Len(recent) = Cardinality(WellFormedAt)

---------------------------------------------------------------------------
(* The analyzer *)

\* A dict is kept as the sequence of its <<key, value>> items, in insertion
\* order, no key twice.
DictKeys(d) == {d[i][1] : i \in 1..Len(d)}
DictGet(d, key, default) ==
    IF key \in DictKeys(d)
    THEN d[CHOOSE i \in 1..Len(d) : d[i][1] = key][2]
    ELSE default

\* A raw score of a backend: a finite number, an infinity, a NaN, or a value
\* float() refuses (None, a text that is no number).
Num(n) == [kind |-> "num", v |-> n]
RawValues ==
    {Num(n) : n \in (-1)..MaxScore}
        \cup {[kind |-> k, v |-> 0] : k \in {"inf", "nan", "bad"}}

RawMaps ==
    {m \in SeqsUpTo(Labels \X RawValues, Cardinality(Labels)) :
        \A i, j \in 1..Len(m) : m[i][1] = m[j][1] => i = j}

\* _select_backend: the first name of the priority list that names a backend
\* whose import succeeded, else None
RECURSIVE SelectBackend_IgnoringFlags(_)
SelectBackend_IgnoringFlags(backend_priority) ==
    IF backend_priority = <<>> THEN None
    ELSE IF backend_priority[1] \in {"deepface", "fer"}
         THEN backend_priority[1]
         ELSE SelectBackend_IgnoringFlags(Tail(backend_priority))

RECURSIVE SelectBackend(_)
SelectBackend(backend_priority) ==
    IF backend_priority = <<>> THEN None
    ELSE LET backend == backend_priority[1]
         IN  IF backend = "deepface" /\ HAS_DEEPFACE THEN backend
             ELSE IF backend = "fer" /\ HAS_FER THEN backend
             ELSE SelectBackend(Tail(backend_priority))

\* _is_finite_number: float(value) succeeds and np.isfinite holds of it
IsFiniteNumber(value) == value.kind = "num"

\* sum(floats.values())
RECURSIVE SumValues_SkippingFirst(_)
SumValues_SkippingFirst(floats) ==
    IF Len(floats) <= 1 THEN 0
    ELSE floats[Len(floats)][2].v
            + SumValues_SkippingFirst(SubSeq(floats, 1, Len(floats) - 1))

RECURSIVE SumValues(_)
SumValues(floats) ==
    IF floats = <<>> THEN 0
    ELSE floats[1][2].v + SumValues(Tail(floats))

\* _normalize_emotions
NormalizeEmotions(emotions) ==
    LET floats == SelectSeq(emotions, LAMBDA item : IsFiniteNumber(item[2]))
        total == SumValues(floats)
    IN  IF total <= 0 THEN <<>>
        ELSE [i \in 1..Len(floats) |->
                <<floats[i][1], Ratio(floats[i][2].v, total)>>]

\* _get_dominant: max(emotions, key=emotions.get), the first key of the
\* greatest value (the values share their denominator, the positive total)
GetDominant(normalized) ==
    LET best == CHOOSE i \in 1..Len(normalized) :
                    /\ \A j \in 1..Len(normalized) :
                          normalized[j][2][1] <= normalized[i][2][1]
                    /\ \A j \in 1..(i - 1) :
                          normalized[j][2][1] < normalized[i][2][1]
    IN  normalized[best][1]

\* What a backend call gives: an exception, a list of detections, or (DeepFace)
\* one detection mapping. A detection is a dict: `keys` are the keys it has,
\* the other fields their values. A dominant_emotion of DeepFace is one of the
\* labels it scored.
Detection(keys, emotion, emotions, dominant_emotion) ==
    [keys |-> keys, emotion |-> emotion, emotions |-> emotions,
     dominant_emotion |-> dominant_emotion]

Detections ==
    {Detection({}, <<>>, <<>>, ""), Detection({"region"}, <<>>, <<>>, "")}
        \cup {Detection({"emotion", "region"} \cup
                            (IF p[2] = "" THEN {} ELSE {"dominant_emotion"}),
                        p[1], <<>>, p[2]) :
                p \in {q \in RawMaps \X (Labels \cup {""}) :
                          q[2] = "" \/ q[2] \in DictKeys(q[1])}}
        \cup {Detection({"emotions", "box"}, <<>>, m, "") : m \in RawMaps}

OtherFace == Detection({"emotion", "region"}, << <<"sad", Num(1)>> >>, <<>>, "")

Responses ==
    {[shape |-> "raise", faces |-> <<>>], [shape |-> "list", faces |-> <<>>]}
        \cup {[shape |-> "list", faces |-> <<d>>] : d \in Detections}
        \cup {[shape |-> "list", faces |-> <<d, OtherFace>>] : d \in Detections}
        \cup {[shape |-> "dict", faces |-> <<d>>] : d \in Detections}

\* dict.get(key) of a detection: None (here the empty mapping, as falsy as
\* None) when the key is not there
GetEmotion(d) == IF "emotion" \in d.keys THEN d.emotion ELSE <<>>
GetEmotions(d) == IF "emotions" \in d.keys THEN d.emotions ELSE <<>>
GetDominantEmotion(d) ==
    IF "dominant_emotion" \in d.keys THEN d.dominant_emotion ELSE ""

ReturnNone == [kind |-> "None"]
Raise(error) == [kind |-> "raise", error |-> error]
Return(dominant, normalized, now) ==
    [kind |-> "result",
     result |-> [dominant_emotion |-> dominant,
                 confidence |-> DictGet(normalized, dominant, Ratio(0, 1)),
                 emotions |-> normalized,
                 timestamp |-> now]]

\* _analyze_with_deepface, from the backend's answer on
AnalyzeWithDeepface(resp, now) ==
    IF ~HAS_DEEPFACE THEN ReturnNone
    ELSE IF resp.shape = "raise" THEN ReturnNone
    \* a list and a dict are both Iterable: next(iter(...)) is the first
    \* detection of a list, and the first KEY of a dict
    ELSE IF resp.shape = "list" /\ resp.faces = <<>> THEN ReturnNone
    ELSE IF resp.shape = "dict" /\ resp.faces[1].keys = {} THEN ReturnNone
    ELSE IF resp.shape = "dict" THEN Raise("AttributeError")
    ELSE LET analysis == resp.faces[1]
             emotions == IF GetEmotion(analysis) # <<>>
                         THEN GetEmotion(analysis)
                         ELSE GetEmotions(analysis)
             normalized == NormalizeEmotions(emotions)
             dominant == IF GetDominantEmotion(analysis) # ""
                         THEN GetDominantEmotion(analysis)
                         ELSE GetDominant(normalized)
         IN  IF emotions = <<>> THEN ReturnNone
             ELSE IF normalized = <<>> THEN ReturnNone
             ELSE Return(dominant, normalized, now)

\* _analyze_with_fer, from the backend's answer on
AnalyzeWithFer(resp, now) ==
    IF ~HAS_FER THEN ReturnNone
    ELSE IF resp.shape = "raise" THEN ReturnNone
    ELSE IF resp.faces = <<>> THEN ReturnNone
    ELSE LET emotions == GetEmotions(resp.faces[1])
             normalized == NormalizeEmotions(emotions)
         IN  IF emotions = <<>> THEN ReturnNone
             ELSE IF normalized = <<>> THEN ReturnNone
             ELSE Return(GetDominant(normalized), normalized, now)

Priorities == SeqsUpTo({"deepface", "fer", "mediapipe"}, 2)

\* EmotionAnalyzer(backend_priority=...): an ImportError, and no instance, when
\* no backend is selected
Construct ==
    /\ \E backend_priority \in Priorities :
          LET backend == SelectBackend(backend_priority)
          IN  /\ args' = [backend_priority |-> backend_priority]
              /\ IF backend = None
                 THEN /\ analyzer' = NoAnalyzer
                      /\ outcome' = Raise("ImportError")
                 ELSE /\ analyzer' = [backend |-> backend]
                      /\ outcome' = [kind |-> "analyzer"]
    /\ op' = "EmotionAnalyzer"
    /\ response' = NoResponse
    /\ UNCHANGED <<fileVars, appended, summary, recent, HAS_DEEPFACE, HAS_FER,
                   raceVars>>

\* _normalize_emotions(emotions), a pure function: applied once per behaviour
Normalize ==
    /\ op = "start"
    /\ \E emotions \in RawMaps :
          /\ args' = [emotions |-> emotions]
          /\ outcome' = [kind |-> "normalized",
                         emotions |-> NormalizeEmotions(emotions)]
    /\ op' = "_normalize_emotions"
    /\ response' = NoResponse
    /\ UNCHANGED <<fileVars, appended, summary, recent, HAS_DEEPFACE, HAS_FER,
                   analyzer, raceVars>>

\* analyzer.analyze(frame): the frame is None or an image; the backend, when
\* called, answers with any of Responses (FER's detect_emotions with a list).
\* analyze keeps nothing from one call to the next (its one write is the cached
\* FER detector), so the call that follows the construction stands for all.
Analyze ==
    /\ op = "EmotionAnalyzer"
    /\ analyzer # NoAnalyzer
    /\ \/ /\ args' = [frame |-> None]
          /\ response' = NoResponse
          /\ outcome' = ReturnNone
       \/ /\ args' = [frame |-> "image"]
          /\ \E resp \in Responses, now \in DateTimes :
                /\ response' = resp
                /\ IF analyzer.backend = "deepface"
                   THEN outcome' = AnalyzeWithDeepface(resp, now)
                   ELSE IF analyzer.backend = "fer"
                   THEN /\ resp.shape # "dict"
                        /\ outcome' = AnalyzeWithFer(resp, now)
                   ELSE outcome' = Raise("RuntimeError")
    /\ op' = "analyze"
    /\ UNCHANGED <<fileVars, appended, summary, recent, HAS_DEEPFACE, HAS_FER,
                   analyzer, raceVars>>

---------------------------------------------------------------------------
(* SpecAnalyzer: the flags are set once, by the imports at module load *)

InitAnalyzer ==
    /\ exists = FALSE /\ lines = <<>>
    /\ LogIdle /\ ReadIdle /\ RaceIdle
    /\ HAS_DEEPFACE \in BOOLEAN
    /\ HAS_FER \in BOOLEAN
    /\ analyzer = NoAnalyzer
    /\ response = NoResponse
    /\ outcome = NoOutcome

NextAnalyzer == Construct \/ Normalize \/ Analyze

SpecAnalyzer == InitAnalyzer /\ [][NextAnalyzer]_vars

\* An available backend name, as the claims mean it.
Available(name) ==
    \/ name = "deepface" /\ HAS_DEEPFACE
    \/ name = "fer" /\ HAS_FER

\* C3: for every priority list and every combination of the two availability
\* flags, constructing EmotionAnalyzer selects the first name in priority
\* order whose flag is true; when no name of the list is available the
\* construction fails with an error and gives no analyzer. A constructed
\* analyzer always has backend "deepface" or "fer".
C3_SelectsFirstAvailable ==
    /\ analyzer # NoAnalyzer => analyzer.backend \in {"deepface", "fer"}
    /\ op = "EmotionAnalyzer" =>
          LET p == args.backend_priority
              first == {i \in 1..Len(p) :
                          /\ Available(p[i])
                          /\ \A j \in 1..(i - 1) : ~Available(p[j])}
          IN  IF first = {}
              THEN outcome.kind = "raise" /\ analyzer = NoAnalyzer
              ELSE /\ outcome.kind = "analyzer"
                   /\ \A i \in first : analyzer.backend = p[i]

\* DeepFace comes first in the list and is not installed: FER is selected.
C3_Witness ==
    /\ op = "EmotionAnalyzer"
    /\ args.backend_priority = <<"deepface", "fer">>
    /\ ~HAS_DEEPFACE
    /\ analyzer.backend = "fer"

\* No name of a non-empty list is available: the construction failed.
C3_WitnessNone ==
    /\ op = "EmotionAnalyzer"
    /\ args.backend_priority = <<"mediapipe", "deepface">>
    /\ outcome.kind = "raise"

\* The sum of a mapping's finite values, and of a distribution's values (these
\* share one denominator).
RECURSIVE FiniteSum(_)
FiniteSum(emotions) ==
    IF emotions = <<>> THEN 0
    ELSE (IF emotions[1][2].kind = "num" THEN emotions[1][2].v ELSE 0)
            + FiniteSum(Tail(emotions))
RECURSIVE NumeratorSum(_)
NumeratorSum(distribution) ==
    IF distribution = <<>> THEN 0
    ELSE distribution[1][2][1] + NumeratorSum(Tail(distribution))
SumsToOne(distribution) ==
    /\ distribution # <<>>
    /\ \A i \in 1..Len(distribution) :
          /\ distribution[i][2][2] > 0
          /\ distribution[i][2][2] = distribution[1][2][2]
    /\ NumeratorSum(distribution) = distribution[1][2][2]
IsPositive(value) ==
    \/ value.kind = "num" /\ value.v > 0
    \/ value.kind = "inf"

\* C4 as stated: normalizing a raw score mapping yields a non-empty mapping
\* whose values sum to 1 whenever any input value is positive.
C4_SumsToOneWhenAnyPositive ==
    op = "_normalize_emotions" =>
        ((\E i \in 1..Len(args.emotions) : IsPositive(args.emotions[i][2]))
            => SumsToOne(outcome.emotions))

\* C4 as the code has it: normalizing a raw score mapping yields a non-empty
\* mapping whose values sum to 1 whenever the finite input values sum to a
\* positive number (as they do when one of them is positive and none negative).
C4_SumsToOneWhenFiniteSumPositive ==
    op = "_normalize_emotions" =>
        /\ FiniteSum(args.emotions) > 0 => SumsToOne(outcome.emotions)
        /\ (/\ \E i \in 1..Len(args.emotions) :
                  args.emotions[i][2].kind = "num" /\ args.emotions[i][2].v > 0
            /\ \A i \in 1..Len(args.emotions) :
                  args.emotions[i][2].kind = "num" => args.emotions[i][2].v >= 0)
              => SumsToOne(outcome.emotions)

\* Two scores, one of them not finite, were normalized to a distribution.
C4_Witness ==
    /\ op = "_normalize_emotions"
    /\ Len(args.emotions) = 2
    /\ \E i \in 1..2 : args.emotions[i][2].kind = "nan"
    /\ Len(outcome.emotions) = 1
    /\ SumsToOne(outcome.emotions)

\* Two finite scores were normalized to a distribution of two shares.
C4_WitnessTwo ==
    /\ op = "_normalize_emotions"
    /\ Len(outcome.emotions) = 2
    /\ outcome.emotions[1][2] # outcome.emotions[2][2]
    /\ SumsToOne(outcome.emotions)

\* C5: every EmotionResult analyze returns, on either backend, has a dominant
\* label that is a key of its normalized distribution holding the greatest
\* normalized value, and a confidence equal to that label's normalized value.
C5_DominantIsGreatest ==
    (op = "analyze" /\ outcome.kind = "result") =>
        LET r == outcome.result
        IN  /\ r.dominant_emotion \in DictKeys(r.emotions)
            /\ \A i \in 1..Len(r.emotions) :
                  r.emotions[i][2][1]
                      <= DictGet(r.emotions, r.dominant_emotion, Ratio(0, 1))[1]
            /\ r.confidence = DictGet(r.emotions, r.dominant_emotion, Ratio(0, 1))

\* The scores a detection carries for the analyzer's backend.
Payload(d) ==
    IF analyzer.backend = "fer" THEN GetEmotions(d)
    ELSE IF GetEmotion(d) # <<>> THEN GetEmotion(d) ELSE GetEmotions(d)

\* C6: for a constructed analyzer and any frame, analyze returns None and never
\* raises when the backend raises, returns no detections, returns a detection
\* without an emotion payload, or returns scores whose normalization is empty,
\* whether the backend returns a list of detections or one detection mapping.
C6_FailureGivesNone ==
    (/\ op = "analyze"
     /\ args.frame = "image"
     /\ \/ response.shape = "raise"
        \/ response.faces = <<>>
        \/ Payload(response.faces[1]) = <<>>
        \/ FiniteSum(Payload(response.faces[1])) <= 0)
        => outcome = ReturnNone

---------------------------------------------------------------------------
(* SpecRace: two writers call append_log_entry on one path; the steps of a
   call are the existence check, the header write, the open for append and
   the write of the line. *)

\* The entry of writer w's k-th call.
EntryOf(w, k) ==
    LogLine([dominant_emotion |-> IF w = 1 THEN "happy" ELSE "sad",
             confidence |-> Ratio(2, 3),
             timestamp |-> [date |-> 1, sec |-> 0]],
            "writer" \o ToString(w) \o "-" \o ToString(k))

\* ensure_log_file: `if not log_path.exists()`
CheckExists(w) ==
    /\ pc[w] = "idle"
    /\ calls[w] < MaxCalls
    /\ calls' = [calls EXCEPT ![w] = @ + 1]
    /\ sawFile' = [sawFile EXCEPT ![w] = exists]
    /\ pc' = [pc EXCEPT ![w] = IF exists THEN "open" ELSE "write_text"]
    /\ op' = "exists"
    /\ UNCHANGED <<fileVars, appended, readVars, anaVars>>

\* ensure_log_file: log_path.write_text(header), by a writer that saw no file.
\* The truncation and the write of the header are taken as one step.
WriteHeader(w) ==
    /\ pc[w] = "write_text"
    /\ WriteText(HeaderLine)
    /\ pc' = [pc EXCEPT ![w] = "open"]
    /\ op' = "write_text"
    /\ UNCHANGED <<appended, readVars, anaVars, sawFile, calls>>

\* append_log_entry: log_path.open("a")
OpenAppend(w) ==
    /\ pc[w] = "open"
    /\ exists' = TRUE
    /\ lines' = lines
    /\ pc' = [pc EXCEPT ![w] = "write"]
    /\ op' = "open"
    /\ UNCHANGED <<appended, readVars, anaVars, sawFile, calls>>

\* append_log_entry: handle.write(line), flushed as the with block closes
WriteLine(w) ==
    /\ pc[w] = "write"
    /\ exists' = TRUE
    /\ lines' = Written(lines, EntryOf(w, calls[w]))
    /\ appended' = Append(appended, EntryOf(w, calls[w]))
    /\ pc' = [pc EXCEPT ![w] = "idle"]
    /\ op' = "write"
    /\ UNCHANGED <<readVars, anaVars, sawFile, calls>>

InitRace ==
    /\ exists = FALSE /\ lines = <<>>
    /\ LogIdle /\ ReadIdle /\ AnaIdle /\ RaceIdle

NextRace ==
    \E w \in Writers :
        CheckExists(w) \/ WriteHeader(w) \/ OpenAppend(w) \/ WriteLine(w)

SpecRace == InitRace /\ [][NextRace]_vars

AllDone == \A w \in Writers : pc[w] = "idle" /\ calls[w] = MaxCalls

\* C10: when two writers run append_log_entry on one path with their steps
\* interleaved in any order, no entry is lost: after both finish, the file
\* starts with the header row, holds it exactly once, and holds the line of
\* every completed append_log_entry call.
C10_NoEntryLost ==
    AllDone =>
        /\ lines # <<>>
        /\ lines[1] = EMOTION_COLUMNS
        /\ Cardinality({i \in 1..Len(lines) : lines[i] = EMOTION_COLUMNS}) = 1
        /\ \A k \in 1..Len(appended) :
              \E i \in 1..Len(lines) : lines[i] = appended[k]

====
